---- MODULE Spec2Model ----
(***************************************************************************)
(* Model of py21cmfast/inputs.py: the input parameter classes CosmoParams, *)
(* UserParams, FlagOptions and AstroParams, their _defaults_ tables and    *)
(* their derived properties.                                               *)
(*                                                                         *)
(* One parameter object is live at a time (obj).  The operations are:      *)
(* construction with keyword arguments, assignment to a plain attribute,   *)
(* reading an attribute or property, reading a field of the structure      *)
(* handed to the compute engine, and re-construction of a copy from the    *)
(* dictionary snapshot of the live object.                                 *)
(***************************************************************************)
EXTENDS Integers, Sequences, FiniteSets, TLC

VARIABLES obj, kw, mutated, last, ret, copy

vars == <<obj, kw, mutated, last, ret, copy>>

----------------------------------------------------------------------------
(* Bounds of the model. *)

\* largest number of keyword arguments in the **kwargs of a constructor call
MaxKw == 1

\* largest value assigned to HII_DIM (besides the default 50)
MaxHIIDim == 2

----------------------------------------------------------------------------
(* Python values.  Every value is a record [t, n, s, e]:                   *)
(*   t = "int"   : the integer n                                           *)
(*   t = "bool"  : True (n = 1) or False (n = 0)                           *)
(*   t = "float" : the number 10^10^...^(n / Scale), with e powers of ten  *)
(*                 (e = 0: the plain number n / Scale)                     *)
(*   t = "str"   : the string whose characters are the sequence s          *)
(*   t = "none"  : None                                                    *)

\* floats are fixed-point with five decimals (4.69897 is 469897)
Scale == 10^5

PyInt(i) == [t |-> "int", n |-> i, s |-> <<>>, e |-> 0]

PyBool(b) == [t |-> "bool", n |-> IF b THEN 1 ELSE 0, s |-> <<>>, e |-> 0]

PyFloat(m) == [t |-> "float", n |-> m, s |-> <<>>, e |-> 0]

PyStr(chars) == [t |-> "str", n |-> 0, s |-> chars, e |-> 0]

PyNone == [t |-> "none", n |-> 0, s |-> <<>>, e |-> 0]

PyTrue == PyBool(TRUE)

PyFalse == PyBool(FALSE)

IsNumber(v) == v.t \in {"int", "bool", "float"}

\* the number v in units of 1/Scale (towers of powers keep their exponent)
Scaled(v) == IF v.t = "float" THEN v.n ELSE v.n * Scale

\* Python's truth value of v:  bool(v)
Truthy(v) ==
    CASE v.t = "none" -> FALSE
      [] v.t = "str" -> Len(v.s) > 0
      [] OTHER -> v.e > 0 \/ v.n # 0

\* Python's  a != b
PyNe(a, b) ==
    IF IsNumber(a) /\ IsNumber(b)
    THEN ~(a.e = b.e /\ Scaled(a) = Scaled(b))
    ELSE ~(a.t = b.t /\ a.s = b.s)

\* Python's  lo <= v < hi  for a number v and integers lo, hi
InRange(lo, v, hi) == lo * Scale <= Scaled(v) /\ Scaled(v) < hi * Scale

\* Python's  int(v)  for a number v: truncation towards zero
IntOf(v) ==
    IF v.t = "float"
    THEN IF v.n >= 0 THEN v.n \div Scale ELSE -((-v.n) \div Scale)
    ELSE v.n

\* Python's  10 ** v  for a number v.  The result is computed where it is
\* a fixed-point number, and kept as a tower of powers elsewhere.
Pow10(v) ==
    IF v.e = 0 /\ v.t \in {"int", "bool"} /\ v.n \in 0..4
    THEN PyInt(10^(v.n))
    ELSE IF v.e = 0 /\ Scaled(v) % Scale = 0 /\ (Scaled(v) \div Scale) \in 0..4
    THEN PyFloat(10^(Scaled(v) \div Scale) * Scale)
    ELSE IF v.e = 0 /\ Scaled(v) % Scale = 0 /\ (Scaled(v) \div Scale) \in -5..-1
    THEN PyFloat(Scale \div 10^(-(Scaled(v) \div Scale)))
    ELSE [t |-> "float", n |-> Scaled(v), s |-> <<>>, e |-> v.e + 1]

----------------------------------------------------------------------------
(* Strings. *)

LowerCase == <<"a","b","c","d","e","f","g","h","i","j","k","l","m",
               "n","o","p","q","r","s","t","u","v","w","x","y","z">>

UpperCase == <<"A","B","C","D","E","F","G","H","I","J","K","L","M",
               "N","O","P","Q","R","S","T","U","V","W","X","Y","Z">>

UpperChar(c) ==
    IF \E i \in 1..26 : LowerCase[i] = c
    THEN UpperCase[CHOOSE i \in 1..26 : LowerCase[i] = c]
    ELSE c

LowerChar(c) ==
    IF \E i \in 1..26 : UpperCase[i] = c
    THEN LowerCase[CHOOSE i \in 1..26 : UpperCase[i] = c]
    ELSE c

\* str.upper()
Upper(chars) == [i \in 1..Len(chars) |-> UpperChar(chars[i])]

\* str.lower()
Lower(chars) == [i \in 1..Len(chars) |-> LowerChar(chars[i])]

\* str.capitalize()
Capitalize(chars) ==
    [i \in 1..Len(chars) |-> IF i = 1 THEN UpperChar(chars[i]) ELSE LowerChar(chars[i])]

\* list.index(x): the 0-based position of the first element equal to x,
\* or -1 where Python raises ValueError
ListIndex(list, x) ==
    IF \E i \in 1..Len(list) : list[i] = x
    THEN (CHOOSE i \in 1..Len(list) :
             list[i] = x /\ \A j \in 1..(i - 1) : list[j] # x) - 1
    ELSE -1

----------------------------------------------------------------------------
(* The classes: their _defaults_ tables, documented parameters, properties. *)

Classes == {"CosmoParams", "UserParams", "FlagOptions", "AstroParams"}

\* CosmoParams._defaults_ (Planck15: h = 0.6774, Om0 = 0.3075, Ob0 = 0.0486)
CosmoParams_defaults ==
    [SIGMA_8 |-> PyFloat(82000), hlittle |-> PyFloat(67740),
     OMm |-> PyFloat(30750), OMb |-> PyFloat(4860), POWER_INDEX |-> PyFloat(97000)]

\* UserParams._defaults_ with the Press-Schechter HMF as the default
UserParams_defaults_PS ==
    [BOX_LEN |-> PyFloat(150 * Scale), DIM |-> PyNone, HII_DIM |-> PyInt(50),
     USE_FFTW_WISDOM |-> PyFalse, HMF |-> PyInt(0),
     USE_RELATIVE_VELOCITIES |-> PyFalse, POWER_SPECTRUM |-> PyInt(0)]

\* UserParams._defaults_
UserParams_defaults ==
    [BOX_LEN |-> PyFloat(150 * Scale), DIM |-> PyNone, HII_DIM |-> PyInt(50),
     USE_FFTW_WISDOM |-> PyFalse, HMF |-> PyInt(1),
     USE_RELATIVE_VELOCITIES |-> PyFalse, POWER_SPECTRUM |-> PyInt(0)]

\* FlagOptions._defaults_
FlagOptions_defaults ==
    [USE_MASS_DEPENDENT_ZETA |-> PyFalse, SUBCELL_RSD |-> PyFalse,
     INHOMO_RECO |-> PyFalse, USE_TS_FLUCT |-> PyFalse,
     M_MIN_in_Mass |-> PyFalse, PHOTON_CONS |-> PyFalse]

\* AstroParams._defaults_
AstroParams_defaults ==
    [HII_EFF_FACTOR |-> PyFloat(30 * Scale), F_STAR10 |-> PyFloat(-130000),
     ALPHA_STAR |-> PyFloat(50000), F_ESC10 |-> PyFloat(-1 * Scale),
     ALPHA_ESC |-> PyFloat(-50000), M_TURN |-> PyFloat(870000),
     R_BUBBLE_MAX |-> PyNone, ION_Tvir_MIN |-> PyFloat(469897),
     L_X |-> PyFloat(40 * Scale), NU_X_THRESH |-> PyFloat(500 * Scale),
     X_RAY_SPEC_INDEX |-> PyFloat(1 * Scale), X_RAY_Tvir_MIN |-> PyNone,
     t_STAR |-> PyFloat(50000), N_RSD_STEPS |-> PyInt(20)]

Defaults(cls) ==
    CASE cls = "CosmoParams" -> CosmoParams_defaults
      [] cls = "UserParams" -> UserParams_defaults
      [] cls = "FlagOptions" -> FlagOptions_defaults
      [] cls = "AstroParams" -> AstroParams_defaults

\* the parameter names listed in the "Parameters" section of each docstring
DocParams(cls) ==
    CASE cls = "CosmoParams" ->
            {"SIGMA_8", "hlittle", "OMm", "OMb", "POWER_INDEX"}
      [] cls = "UserParams" ->
            {"HII_DIM", "DIM", "BOX_LEN", "HMF", "USE_RELATIVE_VELOCITIES",
             "POWER_SPECTRUM"}
      [] cls = "FlagOptions" ->
            {"USE_MASS_DEPENDENT_ZETA", "SUBCELL_RSDS", "INHOMO_RECO",
             "USE_TS_FLUCT", "M_MIN_in_Mass", "PHOTON_CONS"}
      [] cls = "AstroParams" ->
            {"INHOMO_RECO", "HII_EFF_FACTOR", "F_STAR10", "ALPHA_STAR",
             "F_ESC10", "ALPHA_ESC", "M_TURN", "R_BUBBLE_MAX", "ION_Tvir_MIN",
             "L_X", "NU_X_THRESH", "X_RAY_SPEC_INDEX", "X_RAY_Tvir_MIN",
             "t_STAR", "N_RSD_STEPS"}

\* the keywords the constructor of a class names in its own signature
CtorKeywords(cls) == IF cls = "AstroParams" THEN {"INHOMO_RECO"} ELSE {}

\* the keys of _defaults_ that a class defines as a property
Props(cls) ==
    CASE cls = "CosmoParams" -> {}
      [] cls = "UserParams" -> {"DIM", "POWER_SPECTRUM", "HMF"}
      [] cls = "FlagOptions" -> {"M_MIN_in_Mass"}
      [] cls = "AstroParams" -> {"R_BUBBLE_MAX", "X_RAY_Tvir_MIN"}

\* the hidden attribute "_" + k behind the property k
Hidden(k) ==
    CASE k = "DIM" -> "_DIM"
      [] k = "POWER_SPECTRUM" -> "_POWER_SPECTRUM"
      [] k = "HMF" -> "_HMF"
      [] k = "M_MIN_in_Mass" -> "_M_MIN_in_Mass"
      [] k = "R_BUBBLE_MAX" -> "_R_BUBBLE_MAX"
      [] k = "X_RAY_Tvir_MIN" -> "_X_RAY_Tvir_MIN"

\* the attribute under which the constructor saves the key k: a key that
\* is a property of the class cannot be assigned and is saved hidden
StoreName(cls, k) == IF k \in Props(cls) THEN Hidden(k) ELSE k

\* UserParams._hmf_models
hmf_models ==
    << <<"P","S">>, <<"S","T">>, <<"W","A","T","S","O","N">>,
       <<"W","A","T","S","O","N","-","Z">> >>

\* UserParams._power_models
power_models ==
    << <<"E","H">>, <<"B","B","K","S">>,
       <<"E","F","S","T","A","T","H","I","O","U">>,
       <<"P","E","E","B","L","E","S">>, <<"W","H","I","T","E">>,
       <<"C","L","A","S","S">> >>

----------------------------------------------------------------------------
(* Results of a read: a value, possibly with a logged warning, or an       *)
(* exception.                                                              *)

Ok(v) == [kind |-> "ok", val |-> v, warned |-> FALSE]

OkWarned(v) == [kind |-> "ok", val |-> v, warned |-> TRUE]

Raise(exc) == [kind |-> exc, val |-> PyNone, warned |-> FALSE]

NoResult == [kind |-> "none", val |-> PyNone, warned |-> FALSE]

----------------------------------------------------------------------------
(* The constructors. *)

\* StructWithDefaults.__init__: every key of _defaults_ takes the value
\* given for it, or else its default; a key that is not an option of the
\* class is a configuration error.
StructWithDefaults_init(cls, kwargs) ==
    [a \in {StoreName(cls, k) : k \in DOMAIN Defaults(cls)} |->
        LET k == CHOOSE k \in DOMAIN Defaults(cls) : StoreName(cls, k) = a
        IN  IF k \in DOMAIN kwargs THEN kwargs[k] ELSE Defaults(cls)[k]]

\* AstroParams.__init__: INHOMO_RECO is taken off the keywords and saved
\* as a plain attribute, the rest goes to StructWithDefaults.__init__
AstroParams_init(kwargs) ==
    LET rest == [k \in (DOMAIN kwargs) \ {"INHOMO_RECO"} |-> kwargs[k]]
        base == StructWithDefaults_init("AstroParams", rest)
        flag == IF "INHOMO_RECO" \in DOMAIN kwargs
                THEN kwargs["INHOMO_RECO"]
                ELSE FlagOptions_defaults.INHOMO_RECO
    IN  [a \in (DOMAIN base) \cup {"INHOMO_RECO"} |->
            IF a = "INHOMO_RECO" THEN flag ELSE base[a]]

\* the keys a constructor call accepts
Recognized(cls) == (DOMAIN Defaults(cls)) \cup CtorKeywords(cls)

\* cls(**kwargs): the attributes of the new instance
New(cls, kwargs) ==
    IF cls = "AstroParams"
    THEN AstroParams_init(kwargs)
    ELSE StructWithDefaults_init(cls, kwargs)

\* StructWithDefaults.self: the dictionary which, passed to the
\* constructor, is meant to yield a copy: every key of _defaults_ with the
\* value saved for it
SelfDict(o) ==
    [k \in DOMAIN Defaults(o.cls) |-> o.f[StoreName(o.cls, k)]]

----------------------------------------------------------------------------
(* The properties.  f is the attribute dictionary of the instance. *)

\* CosmoParams.OMl
OMl(f) == PyFloat(Scale - Scaled(f["OMm"]))

\* DIM with the default fixed at the value it has at construction
DIM_frozen(f) == IF Truthy(f["_DIM"]) THEN f["_DIM"] ELSE PyInt(200)

\* UserParams.DIM:  self._DIM or 4 * self.HII_DIM
DIM(f) == IF Truthy(f["_DIM"]) THEN f["_DIM"] ELSE PyInt(4 * f["HII_DIM"].n)

\* UserParams.tot_fft_num_pixels
tot_fft_num_pixels(f) == PyInt(DIM(f).n ^ 3)

\* UserParams.HII_tot_num_pixels
HII_tot_num_pixels(f) == PyInt(f["HII_DIM"].n ^ 3)

\* POWER_SPECTRUM without the range check: the stored number is returned
POWER_SPECTRUM_unchecked(f) ==
    LET stored == f["_POWER_SPECTRUM"] IN
    IF Truthy(f["USE_RELATIVE_VELOCITIES"])
    THEN IF PyNe(stored, PyInt(5)) THEN OkWarned(PyInt(5)) ELSE Ok(PyInt(5))
    ELSE IF stored.t = "str"
         THEN LET val == ListIndex(power_models, Upper(stored.s)) IN
              IF val = -1 THEN Raise("ValueError") ELSE Ok(PyInt(val))
         ELSE Ok(stored)

\* POWER_SPECTRUM without the USE_RELATIVE_VELOCITIES branch
POWER_SPECTRUM_stored(f) ==
    LET stored == f["_POWER_SPECTRUM"] IN
    IF stored.t = "str"
    THEN LET val == ListIndex(power_models, Upper(stored.s)) IN
         IF val = -1 THEN Raise("ValueError") ELSE Ok(PyInt(val))
    ELSE IF ~InRange(0, stored, Len(power_models))
         THEN Raise("ValueError")
         ELSE Ok(stored)

\* UserParams.POWER_SPECTRUM
POWER_SPECTRUM(f) ==
    LET stored == f["_POWER_SPECTRUM"] IN
    IF Truthy(f["USE_RELATIVE_VELOCITIES"])
    THEN IF PyNe(stored, PyInt(5))
            \/ (stored.t = "str" /\ Upper(stored.s) # <<"C","L","A","S","S">>)
         THEN OkWarned(PyInt(5))
         ELSE Ok(PyInt(5))
    ELSE IF stored.t = "str"
         THEN LET val == ListIndex(power_models, Upper(stored.s)) IN
              IF val = -1 THEN Raise("ValueError")
              ELSE IF ~(0 <= val /\ val < Len(power_models))
                   THEN Raise("ValueError")
                   ELSE Ok(PyInt(val))
         ELSE IF ~IsNumber(stored) THEN Raise("TypeError")
              ELSE IF ~InRange(0, stored, Len(power_models))
                   THEN Raise("ValueError")
                   ELSE Ok(stored)

\* HMF looking the stored name up as it is written, without upper()
HMF_cased(f) ==
    LET stored == f["_HMF"]
        idx == ListIndex(hmf_models, stored.s)
    IN  IF stored.t = "str" /\ idx = -1 THEN Raise("ValueError")
        ELSE LET val == IF stored.t = "str" THEN idx ELSE IntOf(stored) IN
             IF ~(0 <= val /\ val < Len(hmf_models))
             THEN Raise("ValueError")
             ELSE Ok(PyInt(val))

\* UserParams.HMF
HMF(f) ==
    LET stored == f["_HMF"]
        idx == ListIndex(hmf_models, Upper(stored.s))
    IN  IF stored.t = "str" /\ idx = -1 THEN Raise("ValueError")
        ELSE IF stored.t = "none" THEN Raise("ValueError")
        ELSE LET val == IF stored.t = "str" THEN idx ELSE IntOf(stored) IN
             IF ~(0 <= val /\ val < Len(hmf_models))
             THEN Raise("ValueError")
             ELSE Ok(PyInt(val))

\* UserParams.hmf_model
hmf_model(f) ==
    LET r == HMF(f) IN
    IF r.kind # "ok" THEN r ELSE Ok(PyStr(hmf_models[r.val.n + 1]))

\* UserParams.power_spectrum_model: a list index must be an int or a bool
power_spectrum_model(f) ==
    LET r == POWER_SPECTRUM(f) IN
    IF r.kind # "ok" THEN r
    ELSE IF r.val.t = "float" THEN [r EXCEPT !.kind = "TypeError", !.val = PyNone]
    ELSE [r EXCEPT !.val = PyStr(power_models[r.val.n + 1])]

\* M_MIN_in_Mass returning the stored flag whatever USE_MASS_DEPENDENT_ZETA
M_MIN_in_Mass_stored(f) == f["_M_MIN_in_Mass"]

\* FlagOptions.M_MIN_in_Mass
M_MIN_in_Mass(f) ==
    IF Truthy(f["USE_MASS_DEPENDENT_ZETA"]) THEN PyTrue ELSE f["_M_MIN_in_Mass"]

\* R_BUBBLE_MAX with the default fixed at the value for INHOMO_RECO = False
R_BUBBLE_MAX_frozen(f) ==
    IF ~Truthy(f["_R_BUBBLE_MAX"])
    THEN Ok(PyFloat(15 * Scale))
    ELSE IF Truthy(f["INHOMO_RECO"]) /\ PyNe(f["_R_BUBBLE_MAX"], PyInt(50))
         THEN OkWarned(f["_R_BUBBLE_MAX"])
         ELSE Ok(f["_R_BUBBLE_MAX"])

\* AstroParams.R_BUBBLE_MAX
R_BUBBLE_MAX(f) ==
    IF ~Truthy(f["_R_BUBBLE_MAX"])
    THEN Ok(IF Truthy(f["INHOMO_RECO"]) THEN PyFloat(50 * Scale)
                                        ELSE PyFloat(15 * Scale))
    ELSE IF Truthy(f["INHOMO_RECO"]) /\ PyNe(f["_R_BUBBLE_MAX"], PyInt(50))
         THEN OkWarned(f["_R_BUBBLE_MAX"])
         ELSE Ok(f["_R_BUBBLE_MAX"])

\* AstroParams.X_RAY_Tvir_MIN
X_RAY_Tvir_MIN(f) ==
    IF Truthy(f["_X_RAY_Tvir_MIN"]) THEN f["_X_RAY_Tvir_MIN"] ELSE f["ION_Tvir_MIN"]

\* AstroParams.convert
AstroParams_convert(key, val) ==
    IF key \in {"F_STAR10", "F_ESC10", "M_TURN", "ION_Tvir_MIN", "L_X",
                "X_RAY_Tvir_MIN"}
    THEN Pow10(val)
    ELSE val

\* StructWithDefaults.convert, overridden by AstroParams
convert(cls, key, val) ==
    IF cls = "AstroParams" THEN AstroParams_convert(key, val) ELSE val

\* the names that can be read off an instance: the keys of _defaults_, the
\* further properties, and the plain attribute INHOMO_RECO of AstroParams
Readable(cls) ==
    (DOMAIN Defaults(cls)) \cup
    CASE cls = "CosmoParams" -> {"OMl"}
      [] cls = "UserParams" -> {"tot_fft_num_pixels", "HII_tot_num_pixels",
                                "hmf_model", "power_spectrum_model"}
      [] cls = "FlagOptions" -> {}
      [] cls = "AstroParams" -> {"INHOMO_RECO"}

\* getattr(o, a)
GetAttr(o, a) ==
    CASE o.cls = "CosmoParams" /\ a = "OMl" -> Ok(OMl(o.f))
      [] o.cls = "UserParams" /\ a = "DIM" -> Ok(DIM(o.f))
      [] o.cls = "UserParams" /\ a = "tot_fft_num_pixels" -> Ok(tot_fft_num_pixels(o.f))
      [] o.cls = "UserParams" /\ a = "HII_tot_num_pixels" -> Ok(HII_tot_num_pixels(o.f))
      [] o.cls = "UserParams" /\ a = "POWER_SPECTRUM" -> POWER_SPECTRUM(o.f)
      [] o.cls = "UserParams" /\ a = "HMF" -> HMF(o.f)
      [] o.cls = "UserParams" /\ a = "hmf_model" -> hmf_model(o.f)
      [] o.cls = "UserParams" /\ a = "power_spectrum_model" -> power_spectrum_model(o.f)
      [] o.cls = "FlagOptions" /\ a = "M_MIN_in_Mass" -> Ok(M_MIN_in_Mass(o.f))
      [] o.cls = "AstroParams" /\ a = "R_BUBBLE_MAX" -> R_BUBBLE_MAX(o.f)
      [] o.cls = "AstroParams" /\ a = "X_RAY_Tvir_MIN" -> Ok(X_RAY_Tvir_MIN(o.f))
      [] OTHER -> Ok(o.f[a])

\* StructWithDefaults.pystruct[key]: the value of the field handed to the
\* compute engine: the attribute as read, converted
PyStruct(o, key) ==
    LET r == GetAttr(o, key) IN
    IF r.kind # "ok" THEN r ELSE [r EXCEPT !.val = convert(o.cls, key, r.val)]

----------------------------------------------------------------------------
(* The values the operations are tried with. *)

\* values tried for UserParams.HMF
HMFInputs ==
    {PyInt(i) : i \in -1..4}
    \cup {PyFloat(250000), PyFloat(-50000), PyTrue}
    \cup {PyStr(hmf_models[i]) : i \in 1..Len(hmf_models)}
    \cup {PyStr(Lower(hmf_models[i])) : i \in 1..Len(hmf_models)}
    \cup {PyStr(Capitalize(hmf_models[4])), PyStr(<<"C","L","A","S","S">>),
          PyStr(<<"X","X">>)}

\* values tried for UserParams.POWER_SPECTRUM
PowerInputs ==
    {PyInt(i) : i \in -1..6}
    \cup {PyFloat(250000), PyFloat(5 * Scale), PyTrue}
    \cup {PyStr(power_models[i]) : i \in 1..Len(power_models)}
    \cup {PyStr(Lower(power_models[i])) : i \in 1..Len(power_models)}
    \cup {PyStr(Capitalize(power_models[6])), PyStr(<<"S","T">>),
          PyStr(<<"X","X">>)}

\* values tried for the key k of a constructor call of cls
Inputs(cls, k) ==
    CASE k \notin Recognized(cls) -> {PyTrue}
      [] cls = "CosmoParams" /\ k = "OMm" -> {PyFloat(25000)}
      [] cls = "CosmoParams" -> {PyFloat(Scale)}
      [] k = "BOX_LEN" -> {PyFloat(300 * Scale)}
      [] k = "DIM" -> {PyInt(0), PyInt(3)}
      [] k = "HII_DIM" -> {PyInt(i) : i \in 1..MaxHIIDim}
      [] k = "HMF" -> HMFInputs
      [] k = "POWER_SPECTRUM" -> PowerInputs
      [] k \in {"M_MIN_in_Mass", "USE_MASS_DEPENDENT_ZETA", "INHOMO_RECO"} ->
            {PyTrue, PyFalse}
      [] k = "R_BUBBLE_MAX" ->
            {PyInt(0), PyInt(50), PyFloat(50 * Scale), PyFloat(20 * Scale)}
      [] k = "F_STAR10" -> {PyFloat(-1 * Scale), PyInt(0)}
      [] k = "ION_Tvir_MIN" -> {PyFloat(4 * Scale), PyInt(0)}
      [] k = "X_RAY_Tvir_MIN" ->
            {PyInt(0), PyFloat(0), PyFloat(5 * Scale), PyFloat(469897)}
      [] k \in {"F_ESC10", "M_TURN", "L_X"} -> {PyFloat(-150000)}
      [] k = "N_RSD_STEPS" -> {PyInt(10)}
      [] cls = "AstroParams" -> {PyFloat(2 * Scale)}
      [] OTHER -> {PyTrue}

\* the keys tried in a constructor call: the options of the class, the
\* documented parameter names, and a name that is neither
KeyUniverse(cls) == Recognized(cls) \cup DocParams(cls) \cup {"NOT_AN_OPTION"}

\* the keyword dictionaries tried in a constructor call: at most MaxKw keys
\* go to **kwargs, besides the keywords of the constructor's own signature
KwargsOf(cls) ==
    UNION { { g \in [K -> UNION {Inputs(cls, k) : k \in K}] :
                \A k \in K : g[k] \in Inputs(cls, k) } :
            K \in {K \in SUBSET KeyUniverse(cls) :
                     Cardinality(K \ CtorKeywords(cls)) <= MaxKw} }

\* the plain attributes that are assigned after construction
Assignable(cls) ==
    CASE cls = "CosmoParams" -> {"OMm"}
      [] cls = "UserParams" -> {"HII_DIM", "USE_RELATIVE_VELOCITIES"}
      [] cls = "FlagOptions" -> {"USE_MASS_DEPENDENT_ZETA"}
      [] cls = "AstroParams" -> {"INHOMO_RECO", "ION_Tvir_MIN"}

\* the values assigned to the attribute a
Assigned(cls, a) ==
    IF a = "USE_RELATIVE_VELOCITIES" THEN {PyTrue, PyFalse} ELSE Inputs(cls, a)

----------------------------------------------------------------------------
(* The state machine. *)

\* no instance
NoObj == [cls |-> "none", f |-> <<>>]

Op(op, cls, attr, keys) == [op |-> op, cls |-> cls, attr |-> attr, keys |-> keys]

Init ==
    /\ obj = NoObj
    /\ kw = <<>>
    /\ mutated = FALSE
    /\ last = Op("none", "none", "", {})
    /\ ret = NoResult
    /\ copy = NoObj

\* p = cls(**kwargs); the configuration error of a constructor call is
\* not caught and ends the run
Construct ==
    /\ obj.cls = "none"
    /\ ret.kind # "ConfigError"
    /\ \E cls \in Classes : \E kwargs \in KwargsOf(cls) :
        /\ last' = Op("construct", cls, "", DOMAIN kwargs)
        /\ mutated' = FALSE
        /\ copy' = NoObj
        /\ IF (DOMAIN kwargs) \subseteq Recognized(cls)
           THEN /\ obj' = [cls |-> cls, f |-> New(cls, kwargs)]
                /\ kw' = kwargs
                /\ ret' = Ok(PyNone)
           ELSE /\ ret' = Raise("ConfigError")
                /\ UNCHANGED <<obj, kw>>

\* p.a = v, for a plain attribute a
SetAttr ==
    /\ obj.cls # "none"
    /\ \E a \in Assignable(obj.cls) : \E v \in Assigned(obj.cls, a) :
        /\ obj' = [obj EXCEPT !.f[a] = v]
        /\ last' = Op("set", obj.cls, a, {})
    /\ mutated' = TRUE
    /\ ret' = Ok(PyNone)
    /\ copy' = NoObj
    /\ UNCHANGED kw

\* a read leaves the instance as it is, so a read that follows a read
\* reaches nothing new: reads are taken after the other operations
Settled == last.op \notin {"read", "struct"}

\* p.a
ReadAttr ==
    /\ obj.cls # "none"
    /\ Settled
    /\ \E a \in Readable(obj.cls) :
        /\ ret' = GetAttr(obj, a)
        /\ last' = Op("read", obj.cls, a, {})
    /\ copy' = NoObj
    /\ UNCHANGED <<obj, kw, mutated>>

\* p.pystruct[k]: the field k as the compute engine receives it (read
\* for the class that overrides convert)
ReadStruct ==
    /\ obj.cls = "AstroParams"
    /\ Settled
    /\ \E k \in DOMAIN Defaults(obj.cls) :
        /\ ret' = PyStruct(obj, k)
        /\ last' = Op("struct", obj.cls, k, {})
    /\ copy' = NoObj
    /\ UNCHANGED <<obj, kw, mutated>>

\* q = cls(**p.self); q is dropped by the next operation
Copy ==
    /\ obj.cls # "none"
    /\ copy' = [cls |-> obj.cls, f |-> New(obj.cls, SelfDict(obj))]
    /\ last' = Op("copy", obj.cls, "", DOMAIN SelfDict(obj))
    /\ ret' = Ok(PyNone)
    /\ UNCHANGED <<obj, kw, mutated>>

\* del p
Discard ==
    /\ obj.cls # "none"
    /\ obj' = NoObj
    /\ kw' = <<>>
    /\ mutated' = FALSE
    /\ last' = Op("del", obj.cls, "", {})
    /\ ret' = NoResult
    /\ copy' = NoObj

Next ==
    \/ Construct
    \/ SetAttr
    \/ ReadAttr
    \/ ReadStruct
    \/ Copy
    \/ Discard

Spec == Init /\ [][Next]_vars

----------------------------------------------------------------------------
(* Properties. *)

\* the instance is read as cls.a
Reading(cls, a) == last.op = "read" /\ obj.cls = cls /\ last.attr = a

\* the two strings are the same name up to letter case
SameName(a, b) == Lower(a) = Lower(b)

\* the value given for the key k at construction, or else d
Given(k, d) == IF k \in DOMAIN kw THEN kw[k] ELSE d

\* the code of a stored name or integer among names, or -1 if it has none
CodeOf(stored, names) ==
    IF stored.t = "str" /\ \E i \in 1..Len(names) : SameName(stored.s, names[i])
    THEN (CHOOSE i \in 1..Len(names) : SameName(stored.s, names[i])) - 1
    ELSE IF stored.t = "int" /\ stored.n \in 0..(Len(names) - 1)
    THEN stored.n
    ELSE -1

\* the stored value is a name or an integer that has no code among names
Unrecognized(stored, names) ==
    stored.t \in {"str", "int"} /\ CodeOf(stored, names) = -1

\* C1: reading HMF, and reading POWER_SPECTRUM while USE_RELATIVE_VELOCITIES
\* is false, returns the position of the stored name in the list of
\* recognized names whatever the letter case of the stored name, and returns
\* the stored integer itself when it is an integer of the valid range.
C1_EnumRead ==
    /\ (Reading("UserParams", "HMF")
          /\ CodeOf(obj.f["_HMF"], hmf_models) # -1)
       => ret = Ok(PyInt(CodeOf(obj.f["_HMF"], hmf_models)))
    /\ (Reading("UserParams", "POWER_SPECTRUM")
          /\ ~Truthy(obj.f["USE_RELATIVE_VELOCITIES"])
          /\ CodeOf(obj.f["_POWER_SPECTRUM"], power_models) # -1)
       => ret = Ok(PyInt(CodeOf(obj.f["_POWER_SPECTRUM"], power_models)))

\* C1 witness: a name written in lower case was read as its code
C1_Witness ==
    /\ Reading("UserParams", "HMF")
    /\ obj.f["_HMF"].t = "str"
    /\ obj.f["_HMF"].s = Lower(hmf_models[4])
    /\ ret = Ok(PyInt(3))

\* C2 as stated: reading HMF or POWER_SPECTRUM raises ValueError whenever
\* the stored value is an unrecognized name or an integer out of range,
\* whatever the other fields hold.
C2_Original ==
    /\ (Reading("UserParams", "HMF") /\ Unrecognized(obj.f["_HMF"], hmf_models))
       => ret.kind = "ValueError"
    /\ (Reading("UserParams", "POWER_SPECTRUM")
          /\ Unrecognized(obj.f["_POWER_SPECTRUM"], power_models))
       => ret.kind = "ValueError"

\* C2 amended: reading HMF, and reading POWER_SPECTRUM while
\* USE_RELATIVE_VELOCITIES is false, raises ValueError whenever the stored
\* value is an unrecognized name or an integer out of range; while
\* USE_RELATIVE_VELOCITIES is true, reading POWER_SPECTRUM over such a value
\* returns 5 and logs a warning.
C2_EnumReject ==
    /\ (Reading("UserParams", "HMF") /\ Unrecognized(obj.f["_HMF"], hmf_models))
       => ret.kind = "ValueError"
    /\ (Reading("UserParams", "POWER_SPECTRUM")
          /\ Unrecognized(obj.f["_POWER_SPECTRUM"], power_models))
       => IF Truthy(obj.f["USE_RELATIVE_VELOCITIES"])
          THEN ret = OkWarned(PyInt(5))
          ELSE ret.kind = "ValueError"

\* C2 witness: an integer above the range was read and rejected
C2_Witness ==
    /\ Reading("UserParams", "POWER_SPECTRUM")
    /\ ~Truthy(obj.f["USE_RELATIVE_VELOCITIES"])
    /\ obj.f["_POWER_SPECTRUM"] = PyInt(6)
    /\ ret.kind = "ValueError"

\* the instance is as its constructor left it when called with no argument
Pristine == obj.cls # "none" /\ DOMAIN kw = {} /\ ~mutated

C4_MinMassForced ==
    Reading("FlagOptions", "M_MIN_in_Mass") =>
        IF Truthy(obj.f["USE_MASS_DEPENDENT_ZETA"])
        THEN ret = Ok(PyTrue)
        ELSE ret = Ok(Given("M_MIN_in_Mass", PyFalse))

\* C4 witness: M_MIN_in_Mass was given as False and read as True
C4_Witness ==
    /\ Reading("FlagOptions", "M_MIN_in_Mass")
    /\ "M_MIN_in_Mass" \in DOMAIN kw /\ kw["M_MIN_in_Mass"] = PyFalse
    /\ Truthy(obj.f["USE_MASS_DEPENDENT_ZETA"])
    /\ ret = Ok(PyTrue)

\* C5: for a UserParams constructed without DIM, every read of DIM returns
\* four times the current HII_DIM, whatever was assigned to HII_DIM since
\* construction, and tot_fft_num_pixels reads the cube of it.
C5_DimLive ==
    /\ (Reading("UserParams", "DIM") /\ "DIM" \notin DOMAIN kw)
       => ret = Ok(PyInt(4 * obj.f["HII_DIM"].n))
    /\ (Reading("UserParams", "tot_fft_num_pixels") /\ "DIM" \notin DOMAIN kw)
       => ret = Ok(PyInt((4 * obj.f["HII_DIM"].n) ^ 3))

\* C5 witness: HII_DIM was assigned after construction and DIM read as four
\* times the assigned value
C5_Witness ==
    /\ Reading("UserParams", "DIM")
    /\ "DIM" \notin DOMAIN kw
    /\ mutated
    /\ obj.f["HII_DIM"] # Given("HII_DIM", PyInt(50))
    /\ ret = Ok(PyInt(4 * obj.f["HII_DIM"].n))

\* the AstroParams fields given in log10 units
LogFields == {"F_STAR10", "F_ESC10", "M_TURN", "ION_Tvir_MIN", "L_X", "X_RAY_Tvir_MIN"}

\* the input value of the AstroParams field k: the value given for it (for a
\* plain attribute, the value it holds now), or else its documented default
InputOf(k) ==
    CASE k = "X_RAY_Tvir_MIN" -> Given(k, obj.f["ION_Tvir_MIN"])
      [] k = "R_BUBBLE_MAX" ->
            Given(k, IF Truthy(obj.f["INHOMO_RECO"]) THEN PyFloat(50 * Scale)
                                                     ELSE PyFloat(15 * Scale))
      [] OTHER -> obj.f[k]

\* C6 as stated: the compute engine receives, for each log-unit field of an
\* AstroParams given as v, the value 10^v (and 10^ION_Tvir_MIN for an unset
\* X_RAY_Tvir_MIN), and every other field as it was given.
C6_Original ==
    (last.op = "struct" /\ obj.cls = "AstroParams") =>
        /\ ret.kind = "ok"
        /\ ret.val = IF last.attr \in LogFields
                     THEN Pow10(InputOf(last.attr))
                     ELSE InputOf(last.attr)

\* C7 as stated: every name that can be read off an instance reads the same
\* off the instance constructed from its dictionary snapshot.
C7_Original ==
    last.op = "copy" =>
        \A a \in Readable(obj.cls) :
            /\ GetAttr(copy, a).kind = GetAttr(obj, a).kind
            /\ GetAttr(copy, a).val = GetAttr(obj, a).val

\* C8 as stated: the keys a constructor accepts are the documented
\* parameter names of its class, and a call with any other key fails with a
\* configuration error.
C8_Original ==
    last.op = "construct" =>
        /\ Recognized(last.cls) = DocParams(last.cls)
        /\ ret.kind = "ConfigError" <=> ~(last.keys \subseteq DocParams(last.cls))

\* C9: while USE_RELATIVE_VELOCITIES is true, reading POWER_SPECTRUM returns
\* 5 and power_spectrum_model returns CLASS whatever is stored for
\* POWER_SPECTRUM; while it is false, also after having been true, the read
\* returns the code of the stored name or integer.
C9_RelVelForcesClass ==
    /\ (Reading("UserParams", "POWER_SPECTRUM")
          /\ Truthy(obj.f["USE_RELATIVE_VELOCITIES"]))
       => ret.kind = "ok" /\ ret.val = PyInt(5)
    /\ (Reading("UserParams", "power_spectrum_model")
          /\ Truthy(obj.f["USE_RELATIVE_VELOCITIES"]))
       => ret.kind = "ok" /\ ret.val = PyStr(<<"C","L","A","S","S">>)
    /\ (Reading("UserParams", "POWER_SPECTRUM")
          /\ ~Truthy(obj.f["USE_RELATIVE_VELOCITIES"])
          /\ obj.f["_POWER_SPECTRUM"].t \in {"str", "int"})
       => IF CodeOf(obj.f["_POWER_SPECTRUM"], power_models) # -1
          THEN ret = Ok(PyInt(CodeOf(obj.f["_POWER_SPECTRUM"], power_models)))
          ELSE ret.kind # "ok"

\* C9 witness: USE_RELATIVE_VELOCITIES was assigned True over a stored
\* POWER_SPECTRUM that is not CLASS, and POWER_SPECTRUM read as 5
C9_Witness ==
    /\ Reading("UserParams", "POWER_SPECTRUM")
    /\ mutated
    /\ Truthy(obj.f["USE_RELATIVE_VELOCITIES"])
    /\ obj.f["_POWER_SPECTRUM"] = PyStr(<<"b","b","k","s">>)
    /\ ret.val = PyInt(5)

\* C10: for an AstroParams constructed without R_BUBBLE_MAX, every read of
\* R_BUBBLE_MAX returns 50 when the current INHOMO_RECO is true and 15.0 when
\* it is false, whatever was assigned to INHOMO_RECO since construction.
C10_BubbleLive ==
    (Reading("AstroParams", "R_BUBBLE_MAX") /\ "R_BUBBLE_MAX" \notin DOMAIN kw)
    => ret = Ok(IF Truthy(obj.f["INHOMO_RECO"]) THEN PyFloat(50 * Scale)
                                                ELSE PyFloat(15 * Scale))

\* C10 witness: INHOMO_RECO was assigned True after a construction without
\* it, and R_BUBBLE_MAX read as 50
C10_Witness ==
    /\ Reading("AstroParams", "R_BUBBLE_MAX")
    /\ DOMAIN kw = {}
    /\ mutated
    /\ Truthy(obj.f["INHOMO_RECO"])
    /\ ret = Ok(PyFloat(50 * Scale))

\* C11 as stated: reading R_BUBBLE_MAX of an AstroParams constructed with a
\* value for it returns that value unchanged and does not fail, and logs a
\* warning exactly when the current INHOMO_RECO is true and the value is
\* other than 50.
C11_Original ==
    (Reading("AstroParams", "R_BUBBLE_MAX") /\ "R_BUBBLE_MAX" \in DOMAIN kw) =>
        /\ ret.kind = "ok"
        /\ ret.val = kw["R_BUBBLE_MAX"]
        /\ ret.warned <=> (Truthy(obj.f["INHOMO_RECO"])
                             /\ PyNe(kw["R_BUBBLE_MAX"], PyInt(50)))

\* C12 as stated: reading X_RAY_Tvir_MIN returns the current ION_Tvir_MIN
\* when X_RAY_Tvir_MIN was not given, and the given value for every given
\* value, zero included, whatever was assigned to ION_Tvir_MIN since.
C12_Original ==
    Reading("AstroParams", "X_RAY_Tvir_MIN") =>
        ret = Ok(Given("X_RAY_Tvir_MIN", obj.f["ION_Tvir_MIN"]))

\* C13 as stated: reading DIM of a UserParams constructed with a value for
\* DIM returns that value, 0 included, whatever the current HII_DIM is; DIM
\* reads 4 * HII_DIM only when no value was given.
C13_Original ==
    Reading("UserParams", "DIM") =>
        ret = Ok(Given("DIM", PyInt(4 * obj.f["HII_DIM"].n)))

\* the value is an integer (or a bool, which indexes a list as 0 or 1) of
\* the range of the positions of names
IsCode(v, names) == v.t \in {"int", "bool"} /\ v.n \in 0..(Len(names) - 1)

\* C14 as stated: a read of HMF or POWER_SPECTRUM that does not raise
\* returns an integer of the valid range, whatever is stored, so that
\* hmf_model and power_spectrum_model never fail to index their lists.
C14_Original ==
    /\ (Reading("UserParams", "HMF") /\ ret.kind = "ok")
       => IsCode(ret.val, hmf_models)
    /\ (Reading("UserParams", "POWER_SPECTRUM") /\ ret.kind = "ok")
       => IsCode(ret.val, power_models)
    /\ (Reading("UserParams", "hmf_model")
          \/ Reading("UserParams", "power_spectrum_model"))
       => ret.kind \in {"ok", "ValueError"}

\* the stored POWER_SPECTRUM is CLASS: the number 5, or the name CLASS in
\* any letter case
StoredClass(stored) ==
    \/ IsNumber(stored) /\ ~PyNe(stored, PyInt(5))
    \/ stored.t = "str" /\ SameName(stored.s, power_models[6])

\* C15 as stated: while USE_RELATIVE_VELOCITIES is true, reading
\* POWER_SPECTRUM logs the warning exactly when the stored POWER_SPECTRUM is
\* something other than CLASS.
C15_Original ==
    (Reading("UserParams", "POWER_SPECTRUM")
       /\ Truthy(obj.f["USE_RELATIVE_VELOCITIES"]))
    => (ret.warned <=> ~StoredClass(obj.f["_POWER_SPECTRUM"]))

====
